---- MODULE Spec2Model ----
(***************************************************************************)
(* State-machine model of ScrcpyClient (src/scrcpy_client.py): start(),    *)
(* the handshake of _connect_sockets(), the demux loop _stream_loop(),     *)
(* the listener registry with _send_to_listeners(), and stop().            *)
(*                                                                         *)
(* Execution contexts: context 0 is the caller ("main"); context n > 0 is  *)
(* the threading.Thread created by the n-th call of start().  Session n    *)
(* (the n-th call of start()) owns the sockets, the adb process and the    *)
(* reverse forward with handle n; handle 0 is Python's None.               *)
(***************************************************************************)
EXTENDS Integers, Sequences, FiniteSets, TLC

(* ----------------------------- bounds ---------------------------------- *)
MaxStarts == 2     \* calls of start() by the caller
MaxStops == 2      \* calls of stop() by the caller
MaxPackets == 3    \* packets the peer writes on one video channel
MaxLen == 2        \* payload length of one packet
MaxListeners == 2  \* add_listener calls per event kind

(* ------------------------- program constants --------------------------- *)
HeaderLen == 12
LenOffset == 8
RecvMax == 65536

None == <<>>
Main == 0
Sessions == 1..MaxStarts
Workers == 1..MaxStarts
Ctx == 0..MaxStarts

FRAME == "frame"
INIT == "init"
ListenEvent == {FRAME, INIT}

(* Callbacks a caller may register.  "ok" and "ok2" return, "raise" raises *)
(* an Exception, "stop" returns or calls client.stop(), as                 *)
(* StreamViewer.on_frame does, "unsub" calls remove_listener on itself.    *)
FrameCallbacks == {"ok", "ok2", "raise", "stop", "unsub"}
InitCallbacks == {"ok", "raise"}
Callbacks == FrameCallbacks \cup InitCallbacks

(* ------------------------------ helpers -------------------------------- *)
Range(s) == {s[i] : i \in 1..Len(s)}

Min(a, b) == IF a < b THEN a ELSE b

Prefix(s, t) == Len(s) <= Len(t) /\ SubSeq(t, 1, Len(s)) = s

RECURSIVE Flatten(_)
Flatten(ss) == IF ss = <<>> THEN <<>> ELSE Head(ss) \o Flatten(Tail(ss))

\* list.remove(x): removes the first matching entry
RemoveFirst(s, x) ==
    IF x \notin Range(s) THEN s
    ELSE LET i == CHOOSE k \in 1..Len(s) : s[k] = x /\ \A j \in 1..(k-1) : s[j] # x
         IN  SubSeq(s, 1, i-1) \o SubSeq(s, i+1, Len(s))

\* a variant: the 4-byte field read with the least significant byte first
FromBytesLE(b) == b[1] + 256 * (b[2] + 256 * (b[3] + 256 * b[4]))
\* line 311: int.from_bytes(b, byteorder="big") for a 4-byte field
FromBytesBE(b) == ((b[1] * 256 + b[2]) * 256 + b[3]) * 256 + b[4]

\* the peer's encoding of a u32 as 4 big-endian bytes
U32BE(n) == << (n \div 16777216) % 256, (n \div 65536) % 256, (n \div 256) % 256, n % 256 >>

\* str.lower() on the codec identifiers the peer may send
Lower(s) == IF s = "H264" THEN "h264" ELSE IF s = "H265" THEN "h265" ELSE s

(* --------------------------- the peer's stream ------------------------- *)
\* payload of the i-th packet, L bytes, every byte distinct from every other
PayloadOf(i, L) == [j \in 1..L |-> 16 * i + j]

\* one packet on the wire: 8 reserved bytes, 4 bytes length, the payload
Encode(i, p) == <<128, 0, 0, 0, 0, 0, 0, i>> \o U32BE(Len(p)) \o p

\* the payload lists the peer may send: up to MaxPackets packets of 0..MaxLen bytes
LenSeqs == UNION {[1..k -> 0..MaxLen] : k \in 0..MaxPackets}
PayloadsOf(ls) == [i \in 1..Len(ls) |-> PayloadOf(i, ls[i])]
WireOf(ps) == Flatten([i \in 1..Len(ps) |-> Encode(i, ps[i])])


(* ------------------------------- state --------------------------------- *)
VARIABLES
    \* fields of ScrcpyClient
    is_running, last_frame, resolution, server_process, video_socket,
    control_socket, stream_thread, local_port, video_codec, listeners,
    \* the peer and the device
    wire,        \* wire[n]: bytes of video channel n not yet received
    closed,      \* closed[n]: video socket n was closed locally
    \* control state of the contexts
    spc,         \* position of the caller inside start()
    threaded,    \* argument of the current start()
    lpc,         \* lpc[c]: position of context c inside _stream_loop()
    data_buffer, \* data_buffer[c]: the loop's accumulator
    frames,      \* frames[c]: decoded frames not yet delivered
    pub,         \* pub[c]: the _send_to_listeners() iteration of context c
    tpc,         \* tpc[c]: position of context c inside stop()
    \* history
    hist

client == <<is_running, last_frame, resolution, server_process, video_socket,
            control_socket, stream_thread, local_port, video_codec, listeners>>
envv == <<wire, closed>>
ctl == <<spc, threaded, lpc, data_buffer, frames, pub, tpc>>
vars == <<client, envv, ctl, hist>>

NoPub == [st |-> "none", ev |-> INIT, idx |-> 0, stay |-> {}, called |-> <<>>]

Init ==
    /\ is_running = FALSE
    /\ last_frame = None
    /\ resolution = None
    /\ server_process = 0
    /\ video_socket = 0
    /\ control_socket = 0
    /\ stream_thread = 0
    /\ local_port = 0
    /\ video_codec = "h264"
    /\ listeners = [e \in ListenEvent |-> <<>>]
    /\ wire = [n \in Sessions |-> <<>>]
    /\ closed = [n \in Sessions |-> FALSE]
    /\ spc = "idle"
    /\ threaded = TRUE
    /\ lpc = [c \in Ctx |-> "none"]
    /\ data_buffer = [c \in Ctx |-> <<>>]
    /\ frames = [c \in Ctx |-> <<>>]
    /\ pub = [c \in Ctx |-> NoPub]
    /\ tpc = [c \in Ctx |-> "none"]
    /\ hist = [ nStarts |-> 0,        \* calls of start() so far
                nStops |-> 0,         \* calls of stop() by the caller so far
                nAdds |-> 0,          \* calls of add_listener so far
                sent |-> [n \in Sessions |-> <<>>],   \* payloads written by peer n
                fed |-> [c \in Ctx |-> <<>>],         \* payloads handed to the decoder
                decoded |-> [c \in Ctx |-> <<>>],     \* frames returned by the decoder
                cut |-> [c \in Ctx |-> {}],           \* where reads ended inside a packet
                why |-> [c \in Ctx |-> "none"],       \* why the loop left its while
                seen |-> [l \in Callbacks |-> <<>>], \* frames received per subscriber since start()
                initCount |-> 0,      \* publishes of INIT
                early |-> FALSE,      \* a FRAME was published before any INIT
                hsOk |-> 0,           \* handshakes that passed both checks
                released |-> [n \in Sessions |-> {}],  \* resources of session n released
                again |-> {},         \* resources released a second time
                stopLog |-> [c \in Ctx |-> <<>>],     \* steps of the current/last stop()
                stopRes |-> [c \in Ctx |-> "none"],   \* running | returned | raised
                startRes |-> "none",  \* how the last start() ended
                startFail |-> "none", \* why its handshake failed
                startInit |-> 0,      \* initCount when it was called
                startErr |-> "none",  \* the error it raised to the caller
                gotCodec |-> "none",  \* the codec identifier it read
                gotRes |-> None,      \* the resolution it read
                closedInLoop |-> FALSE,
                ended |-> FALSE ]     \* a stream loop has ended, or a stop() after a start() has returned

(* --------------------------- shared pieces ----------------------------- *)
CallerIdle == spc = "idle" /\ tpc[Main] = "none"

\* the thread of context w has been started and has not returned
IsAlive(w) == w \in Workers /\ lpc[w] \notin {"none", "done"}

\* some context is inside _stream_loop()
LoopActive(c) == lpc[c] \notin {"none", "done"}

\* context c enters stop(): the first statement is still to run
EnterStop(c, h) ==
    /\ tpc' = [tpc EXCEPT ![c] = "flag"]
    /\ hist' = [h EXCEPT !.stopLog[c] = <<>>, !.stopRes[c] = "running"]

\* an exception leaves start() and reaches the caller
RaiseFromStart(err) ==
    /\ spc' = "idle"
    /\ hist' = [hist EXCEPT !.startRes = "raised", !.startErr = err]

\* a variant: start() returns on a failed handshake without calling stop()
ReturnWithoutStop(why, h) ==
    /\ spc' = "idle"
    /\ tpc' = tpc
    /\ hist' = [h EXCEPT !.startFail = why, !.startRes = "failed"]

\* lines 389-391: _connect_sockets() returns False and start() calls stop()
ConnectFails(why, h) ==
    /\ spc' = "failstop"
    /\ EnterStop(Main, [h EXCEPT !.startFail = why])

(* ------------------------------ start() -------------------------------- *)
\* the history of a call starts empty: what ended before it is forgotten
FreshHistory(h) ==
    [h EXCEPT !.nStarts = @ + 1, !.startFail = "none", !.startErr = "none",
              !.gotCodec = "none", !.gotRes = None,
              !.startInit = h.initCount,
              !.seen = [l \in Callbacks |-> <<>>],
              !.fed = [c \in Ctx |-> IF LoopActive(c) THEN @[c] ELSE <<>>],
              !.decoded = [c \in Ctx |-> IF LoopActive(c) THEN @[c] ELSE <<>>],
              !.cut = [c \in Ctx |-> IF LoopActive(c) THEN @[c] ELSE {}],
              !.why = [c \in Ctx |-> IF LoopActive(c) THEN @[c] ELSE "none"],
              !.stopLog = [c \in Ctx |-> IF tpc[c] = "none" THEN <<>> ELSE @[c]],
              !.stopRes = [c \in Ctx |-> IF tpc[c] = "none" THEN "none" ELSE @[c]]]

\* lines 377-386: the call and its is_running check
CallStart(th) ==
    /\ CallerIdle
    /\ hist.nStarts < MaxStarts
    /\ threaded' = th
    /\ pub' = [c \in Ctx |-> IF pub[c].st \in {"iter", "cb"} THEN pub[c] ELSE NoPub]
    /\ \/ /\ is_running
          /\ spc' = spc
          /\ hist' = [FreshHistory(hist) EXCEPT !.startRes = "noop"]
       \/ /\ ~is_running
          /\ spc' = "push"
          /\ hist' = [FreshHistory(hist) EXCEPT !.startRes = "running"]
    /\ UNCHANGED <<client, envv, lpc, data_buffer, frames, tpc>>

\* line 388, _push_server(): the push succeeds or raises IOError
StartPush ==
    /\ spc = "push" /\ tpc[Main] = "none"
    /\ \/ spc' = "reverse" /\ hist' = hist
       \/ RaiseFromStart("push")
    /\ UNCHANGED <<client, envv, threaded, lpc, data_buffer, frames, pub, tpc>>

\* lines 194-201: bind, record the port, register the reverse forward
StartReverse ==
    /\ spc = "reverse"
    /\ local_port' = hist.nStarts
    /\ \/ spc' = "launch" /\ hist' = hist
       \/ RaiseFromStart("reverse")
    /\ UNCHANGED <<is_running, last_frame, resolution, server_process, video_socket,
                   control_socket, stream_thread, video_codec, listeners,
                   envv, threaded, lpc, data_buffer, frames, pub, tpc>>

\* line 203, _start_server(): Popen succeeds or raises
StartLaunch ==
    /\ spc = "launch"
    /\ \/ /\ server_process' = hist.nStarts
          /\ spc' = "accept_video"
          /\ hist' = hist
       \/ /\ server_process' = server_process
          /\ RaiseFromStart("launch")
    /\ UNCHANGED <<is_running, last_frame, resolution, video_socket, control_socket,
                   stream_thread, local_port, video_codec, listeners,
                   envv, threaded, lpc, data_buffer, frames, pub, tpc>>

\* lines 209-211: accept the video channel (the peer will write payloads ps), or time out
StartAcceptVideo(ps) ==
    /\ spc = "accept_video"
    /\ \/ /\ video_socket' = hist.nStarts
          /\ wire' = [n \in Sessions |-> IF n = hist.nStarts THEN WireOf(ps) ELSE <<>>]
          /\ spc' = "accept_control"
          /\ hist' = [hist EXCEPT !.sent[hist.nStarts] = ps]
          /\ UNCHANGED tpc
       \/ /\ UNCHANGED <<video_socket, wire>>
          /\ ConnectFails("timeout", hist)
    /\ UNCHANGED <<is_running, last_frame, resolution, server_process, control_socket,
                   stream_thread, local_port, video_codec, listeners,
                   closed, threaded, lpc, data_buffer, frames, pub>>

\* lines 213-218: accept the control channel, or time out
StartAcceptControl ==
    /\ spc = "accept_control"
    /\ \/ /\ control_socket' = hist.nStarts
          /\ spc' = "name"
          /\ UNCHANGED <<tpc, hist>>
       \/ /\ UNCHANGED control_socket
          /\ ConnectFails("timeout", hist)
    /\ UNCHANGED <<is_running, last_frame, resolution, server_process, video_socket,
                   stream_thread, local_port, video_codec, listeners,
                   envv, threaded, lpc, data_buffer, frames, pub>>

\* lines 220-227: the 64-byte device name: read and decoded, the peer closes
\* (ConnectionAbortedError, caught), or the bytes are not UTF-8 (UnicodeDecodeError)
StartRecvName ==
    /\ spc = "name"
    /\ \/ spc' = "codec" /\ UNCHANGED <<tpc, hist>>
       \/ ConnectFails("socket", hist)
       \/ RaiseFromStart("decode") /\ UNCHANGED tpc
    /\ UNCHANGED <<client, envv, threaded, lpc, data_buffer, frames, pub>>

\* a variant: every codec identifier is accepted
AnyCodec(cd) == TRUE
\* line 237: video_codec.lower() != "h264" is the unsupported case
CodecSupported(cd) == Lower(cd) = "h264"

\* lines 229-241: the 4-byte codec identifier: read, decoded and checked, or
\* the read fails (caught), or the bytes are not UTF-8 (UnicodeDecodeError)
StartRecvCodec(cd) ==
    /\ spc = "codec"
    /\ \/ /\ video_codec' = cd
          /\ CodecSupported(cd)
          /\ spc' = "size"
          /\ hist' = [hist EXCEPT !.gotCodec = cd]
          /\ UNCHANGED tpc
       \/ /\ video_codec' = cd
          /\ ~CodecSupported(cd)
          /\ ConnectFails("codec", [hist EXCEPT !.gotCodec = cd])
       \/ /\ UNCHANGED video_codec
          /\ ConnectFails("socket", hist)
       \/ /\ UNCHANGED video_codec
          /\ RaiseFromStart("decode")
          /\ UNCHANGED tpc
    /\ UNCHANGED <<is_running, last_frame, resolution, server_process, video_socket,
                   control_socket, stream_thread, local_port, listeners,
                   envv, threaded, lpc, data_buffer, frames, pub>>

\* line 257: the bad-resolution check
BadResolution(r) == r = <<0, 0>>

\* _send_to_listeners(event) starts iterating on context c
BeginPublish(c, ev) ==
    pub' = [pub EXCEPT ![c] = [st |-> "iter", ev |-> ev, idx |-> 0,
                                stay |-> Range(listeners[ev]), called |-> <<>>]]

\* lines 243-263: width and height, the check, and the call that publishes
\* INIT; or a read fails (caught)
StartRecvSize(wb, hb) ==
    /\ spc = "size"
    /\ \/ /\ resolution' = <<FromBytesBE(wb), FromBytesBE(hb)>>
          /\ ~BadResolution(resolution')
          /\ spc' = "init"
          /\ BeginPublish(Main, INIT)
          /\ hist' = [hist EXCEPT !.hsOk = @ + 1, !.initCount = @ + 1,
                                  !.gotRes = resolution']
          /\ UNCHANGED tpc
       \/ /\ resolution' = <<FromBytesBE(wb), FromBytesBE(hb)>>
          /\ BadResolution(resolution')
          /\ UNCHANGED pub
          /\ ConnectFails("zero", [hist EXCEPT !.gotRes = resolution'])
       \/ /\ UNCHANGED <<resolution, pub>>
          /\ ConnectFails("socket", hist)
    /\ UNCHANGED <<is_running, last_frame, server_process, video_socket,
                   control_socket, stream_thread, local_port, video_codec, listeners,
                   envv, threaded, lpc, data_buffer, frames>>

\* line 393
StartSetRunning ==
    /\ spc = "set_running"
    /\ is_running' = TRUE
    /\ spc' = "spawn"
    /\ UNCHANGED <<last_frame, resolution, server_process, video_socket,
                   control_socket, stream_thread, local_port, video_codec, listeners,
                   envv, threaded, lpc, data_buffer, frames, pub, tpc, hist>>

\* context c enters _stream_loop(): lines 286-291
EnterLoop(c, h) ==
    /\ lpc' = [lpc EXCEPT ![c] = "while"]
    /\ data_buffer' = [data_buffer EXCEPT ![c] = <<>>]
    /\ frames' = [frames EXCEPT ![c] = <<>>]
    /\ hist' = [h EXCEPT !.fed[c] = <<>>, !.decoded[c] = <<>>, !.cut[c] = {}, !.why[c] = "none"]

\* lines 394-398: the loop on a new thread, or inline
StartSpawn ==
    /\ spc = "spawn"
    /\ \/ /\ threaded
          /\ stream_thread' = hist.nStarts
          /\ spc' = "idle"
          /\ EnterLoop(hist.nStarts, [hist EXCEPT !.startRes = "threaded"])
       \/ /\ ~threaded
          /\ UNCHANGED stream_thread
          /\ spc' = "inline"
          /\ EnterLoop(Main, hist)
    /\ UNCHANGED <<is_running, last_frame, resolution, server_process, video_socket,
                   control_socket, local_port, video_codec, listeners,
                   envv, threaded, pub, tpc>>

(* --------------------------- _stream_loop() ---------------------------- *)
\* line 311: the declared payload length of the packet at the front of the buffer
PacketSize(buf) == FromBytesBE(SubSeq(buf, LenOffset + 1, HeaderLen))

\* lines 308-314: a complete packet is buffered
HasPacket(buf) == Len(buf) >= HeaderLen /\ Len(buf) >= HeaderLen + PacketSize(buf)

\* a variant: the header is handed to the decoder with the payload
PacketDataWithHeader(buf) == SubSeq(buf, 1, HeaderLen + PacketSize(buf))
\* line 316: packet_data = data_buffer[12 : 12 + packet_size]
PacketData(buf) == SubSeq(buf, HeaderLen + 1, HeaderLen + PacketSize(buf))

\* a variant: only the header is deleted from the buffer
RemainderKeepsPayload(buf) == SubSeq(buf, HeaderLen + 1, Len(buf))
\* line 317: del data_buffer[: 12 + packet_size]
Remainder(buf) == SubSeq(buf, HeaderLen + PacketSize(buf) + 1, Len(buf))

\* line 303: data_buffer.extend(chunk)
Extend(buf, chunk) == buf \o chunk

\* lines 319-322: what the decoder returns for one payload: k frames
FramesOf(p, k) == [j \in 1..k |-> <<p, j>>]

\* a variant: the while ignores the flag
LoopWhileIgnoresFlag(c) ==
    /\ lpc[c] = "while"
    /\ lpc' = [lpc EXCEPT ![c] = "recv"]
    /\ UNCHANGED <<client, envv, spc, threaded, data_buffer, frames, pub, tpc, hist>>

\* line 293: while self.is_running
LoopWhile(c) ==
    /\ lpc[c] = "while"
    /\ lpc' = [lpc EXCEPT ![c] = IF is_running THEN "recv" ELSE "exit"]
    /\ hist' = IF is_running THEN hist ELSE [hist EXCEPT !.why[c] = "flag"]
    /\ UNCHANGED <<client, envv, spc, threaded, data_buffer, frames, pub, tpc>>

\* lines 295-305 and 327-332: one recv(0x10000) on the video socket, when the
\* number of bytes that have arrived so far is one of `arrived`
LoopRecv(c, arrived) ==
    /\ lpc[c] = "recv"
    /\ LET v == video_socket IN
       \/ /\ closed[v]                       \* socket closed locally: OSError, break
          /\ lpc' = [lpc EXCEPT ![c] = "exit"]
          /\ hist' = [hist EXCEPT !.why[c] = "closed"]
          /\ UNCHANGED <<wire, data_buffer>>
       \/ /\ ~closed[v]                      \* socket.timeout: continue
          /\ lpc' = [lpc EXCEPT ![c] = "while"]
          /\ UNCHANGED <<wire, data_buffer, hist>>
       \/ /\ ~closed[v] /\ wire[v] = <<>>    \* zero-length read: the peer closed, break
          /\ lpc' = [lpc EXCEPT ![c] = "exit"]
          /\ hist' = [hist EXCEPT !.why[c] = "eof"]
          /\ UNCHANGED <<wire, data_buffer>>
       \/ /\ ~closed[v]                      \* connection reset: socket.error, break
          /\ lpc' = [lpc EXCEPT ![c] = "exit"]
          /\ hist' = [hist EXCEPT !.why[c] = "error"]
          /\ UNCHANGED <<wire, data_buffer>>
       \/ /\ ~closed[v] /\ wire[v] # <<>>    \* a chunk of 1..0x10000 bytes
          /\ \E k \in {Min(Min(Len(wire[v]), RecvMax), a) : a \in arrived} :
                /\ data_buffer' = [data_buffer EXCEPT ![c] = Extend(@, SubSeq(wire[v], 1, k))]
                /\ wire' = [wire EXCEPT ![v] = SubSeq(@, k + 1, Len(@))]
          /\ lpc' = [lpc EXCEPT ![c] = "inner"]
          /\ UNCHANGED hist
    /\ UNCHANGED <<client, closed, spc, threaded, frames, pub, tpc>>

\* lines 307-314: the inner loop stops: flag cleared, or no complete packet
LoopInnerBreak(c) ==
    /\ lpc[c] = "inner"
    /\ ~is_running \/ ~HasPacket(data_buffer[c])
    /\ lpc' = [lpc EXCEPT ![c] = "while"]
    /\ hist' = IF data_buffer[c] = <<>> \/ HasPacket(data_buffer[c]) THEN hist
               ELSE [hist EXCEPT !.cut[c] = @ \cup {IF Len(data_buffer[c]) < HeaderLen
                                                     THEN "header" ELSE "payload"}]
    /\ UNCHANGED <<client, envv, spc, threaded, data_buffer, frames, pub, tpc>>

\* lines 316-322 and 333-344: extract one packet and hand its payload to the decoder
LoopExtract(c, counts) ==
    /\ lpc[c] = "inner"
    /\ is_running /\ HasPacket(data_buffer[c])
    /\ data_buffer' = [data_buffer EXCEPT ![c] = Remainder(@)]
    /\ LET p == PacketData(data_buffer[c]) IN
       \/ \E k \in counts :                     \* the decoder returns k frames
             /\ frames' = [frames EXCEPT ![c] = FramesOf(p, k)]
             /\ lpc' = [lpc EXCEPT ![c] = "frame"]
             /\ hist' = [hist EXCEPT !.fed[c] = Append(@, p),
                                     !.decoded[c] = @ \o FramesOf(p, k)]
       \/ /\ lpc' = [lpc EXCEPT ![c] = "while"]  \* av.InvalidDataError: continue
          /\ hist' = [hist EXCEPT !.fed[c] = Append(@, p)]
          /\ UNCHANGED frames
       \/ /\ lpc' = [lpc EXCEPT ![c] = "exit"]   \* any other Exception: break
          /\ hist' = [hist EXCEPT !.fed[c] = Append(@, p), !.why[c] = "fault"]
          /\ UNCHANGED frames
    /\ UNCHANGED <<client, envv, spc, threaded, pub, tpc>>

\* lines 323-325: the next decoded frame becomes last_frame and is published
LoopFrame(c) ==
    /\ lpc[c] = "frame"
    /\ \/ /\ frames[c] = <<>>
          /\ lpc' = [lpc EXCEPT ![c] = "inner"]
          /\ UNCHANGED <<last_frame, pub, hist>>
       \/ /\ frames[c] # <<>>
          /\ last_frame' = Head(frames[c])
          /\ lpc' = [lpc EXCEPT ![c] = "deliver"]
          /\ BeginPublish(c, FRAME)
          /\ hist' = [hist EXCEPT !.early = @ \/ hist.initCount = 0]
    /\ UNCHANGED <<is_running, resolution, server_process, video_socket, control_socket,
                   stream_thread, local_port, video_codec, listeners,
                   envv, spc, threaded, data_buffer, frames, tpc>>

\* a variant: the loop returns without clearing the flag
LoopExitKeepsFlag(c) ==
    /\ lpc[c] = "exit"
    /\ data_buffer' = [data_buffer EXCEPT ![c] = <<>>]
    /\ frames' = [frames EXCEPT ![c] = <<>>]
    /\ lpc' = [lpc EXCEPT ![c] = IF c = Main THEN "none" ELSE "done"]
    /\ spc' = IF c = Main THEN "idle" ELSE spc
    /\ hist' = [hist EXCEPT !.startRes = IF c = Main THEN "inline" ELSE @, !.ended = TRUE]
    /\ UNCHANGED <<client, envv, threaded, pub, tpc>>

\* lines 346-347: the flag is cleared and the loop returns
LoopExit(c) ==
    /\ lpc[c] = "exit"
    /\ is_running' = FALSE
    /\ data_buffer' = [data_buffer EXCEPT ![c] = <<>>]
    /\ frames' = [frames EXCEPT ![c] = <<>>]
    /\ \/ /\ c = Main
          /\ lpc' = [lpc EXCEPT ![c] = "none"]
          /\ spc' = "idle"
          /\ hist' = [hist EXCEPT !.startRes = "inline", !.ended = TRUE]
       \/ /\ c # Main
          /\ lpc' = [lpc EXCEPT ![c] = "done"]
          /\ hist' = [hist EXCEPT !.ended = TRUE]
          /\ UNCHANGED spc
    /\ UNCHANGED <<last_frame, resolution, server_process, video_socket, control_socket,
                   stream_thread, local_port, video_codec, listeners,
                   envv, threaded, pub, tpc>>

(* ----------------- add_listener / remove_listener ---------------------- *)
\* line 360: self.listeners[event].append(listener)
Subscribe(ls, l) == Append(ls, l)

\* a listener removed while a publish of its event iterates no longer counts as
\* registered throughout that publish
Unstay(ev, l) ==
    [c \in Ctx |-> IF pub[c].st \in {"iter", "cb"} /\ pub[c].ev = ev
                   THEN [pub[c] EXCEPT !.stay = @ \ {l}] ELSE pub[c]]

\* lines 349-362, called by the caller
AddListener(ev, l) ==
    /\ CallerIdle
    /\ hist.nAdds < MaxListeners
    /\ l \notin Range(listeners[ev])
    /\ listeners' = [listeners EXCEPT ![ev] = Subscribe(@, l)]
    /\ hist' = [hist EXCEPT !.nAdds = @ + 1]
    /\ UNCHANGED <<is_running, last_frame, resolution, server_process, video_socket,
                   control_socket, stream_thread, local_port, video_codec, envv, ctl>>

\* lines 364-367, called by the caller
RemoveListener(ev, l) ==
    /\ CallerIdle
    /\ l \in Range(listeners[ev])
    /\ listeners' = [listeners EXCEPT ![ev] = RemoveFirst(@, l)]
    /\ pub' = Unstay(ev, l)
    /\ UNCHANGED <<is_running, last_frame, resolution, server_process, video_socket,
                   control_socket, stream_thread, local_port, video_codec, envv,
                   spc, threaded, lpc, data_buffer, frames, tpc, hist>>

(* ----------------------- _send_to_listeners() -------------------------- *)
\* a variant: what a listener raises leaves _send_to_listeners()
ListenerEscapes(l) == FALSE
\* lines 372-375: try / except Exception catches what a listener raises
ListenerCaught(l) == TRUE

\* line 371: the list iterator yields the entry at its index, if there is one
IterHasNext(ls, idx) == idx < Len(ls)
IterNext(ls, idx) == ls[idx + 1]

\* the event a publish delivers: the frame at the head of frames[c]
Delivered(c, l, h) ==
    IF pub[c].ev = FRAME
    THEN [h EXCEPT !.seen[l] = Append(@, Head(frames[c]))]
    ELSE h

\* lines 371-375: the iterator is exhausted and the call returns to its caller
PublishReturn(c) ==
    /\ pub[c].st = "iter" /\ tpc[c] = "none"
    /\ ~IterHasNext(listeners[pub[c].ev], pub[c].idx)
    /\ pub' = [pub EXCEPT ![c].st = "done"]
    /\ \/ /\ pub[c].ev = INIT               \* back in _connect_sockets(): return True
          /\ spc' = "set_running"
          /\ UNCHANGED <<lpc, frames>>
       \/ /\ pub[c].ev = FRAME              \* back in the loop: the next frame
          /\ frames' = [frames EXCEPT ![c] = Tail(@)]
          /\ lpc' = [lpc EXCEPT ![c] = "frame"]
          /\ UNCHANGED spc
    /\ UNCHANGED <<client, envv, threaded, data_buffer, tpc, hist>>

\* lines 371-375: the next listener is called
PublishCall(c) ==
    /\ pub[c].st = "iter" /\ tpc[c] = "none"
    /\ IterHasNext(listeners[pub[c].ev], pub[c].idx)
    /\ LET l == IterNext(listeners[pub[c].ev], pub[c].idx)
           p == [pub[c] EXCEPT !.idx = @ + 1, !.called = Append(@, l)]
       IN
       \/ /\ l \in {"ok", "ok2", "stop"}    \* the callback returns
          /\ pub' = [pub EXCEPT ![c] = p]
          /\ hist' = Delivered(c, l, hist)
          /\ UNCHANGED <<listeners, tpc, lpc, frames, spc>>
       \/ /\ l = "raise"                    \* the callback raises
          /\ hist' = IF ListenerCaught(l) THEN Delivered(c, l, hist)
                     ELSE [Delivered(c, l, hist) EXCEPT !.why[c] = "listener"]
          /\ IF ListenerCaught(l)
             THEN /\ pub' = [pub EXCEPT ![c] = p]
                  /\ UNCHANGED <<lpc, frames, spc>>
             ELSE /\ pub' = [pub EXCEPT ![c] = [p EXCEPT !.st = "none"]]
                  /\ IF p.ev = FRAME        \* line 338: except Exception, break
                     THEN /\ lpc' = [lpc EXCEPT ![c] = "exit"]
                          /\ frames' = [frames EXCEPT ![c] = <<>>]
                          /\ UNCHANGED spc
                     ELSE /\ spc' = "idle"  \* the exception leaves start()
                          /\ UNCHANGED <<lpc, frames>>
          /\ UNCHANGED <<listeners, tpc>>
       \/ /\ l = "stop"                     \* the callback calls client.stop()
          /\ pub' = [pub EXCEPT ![c] = [p EXCEPT !.st = "cb"]]
          /\ EnterStop(c, Delivered(c, l, hist))
          /\ UNCHANGED <<listeners, lpc, frames, spc>>
       \/ /\ l = "unsub"                    \* the callback removes itself
          /\ listeners' = [listeners EXCEPT ![p.ev] = RemoveFirst(@, l)]
          /\ pub' = [Unstay(p.ev, l) EXCEPT ![c].idx = p.idx, ![c].called = p.called]
          /\ hist' = Delivered(c, l, hist)
          /\ UNCHANGED <<tpc, lpc, frames, spc>>
    /\ UNCHANGED <<is_running, last_frame, resolution, server_process, video_socket,
                   control_socket, stream_thread, local_port, video_codec,
                   envv, threaded, data_buffer>>

(* ------------------------------- stop() -------------------------------- *)
\* the caller calls stop(): lines 400-402
CallStop ==
    /\ CallerIdle
    /\ hist.nStops < MaxStops
    /\ EnterStop(Main, [hist EXCEPT !.nStops = @ + 1])
    /\ UNCHANGED <<client, envv, spc, threaded, lpc, data_buffer, frames, pub>>

\* a variant: the video socket is closed before the control socket
AfterVideoFirst(step) ==
    CASE step = "flag" -> "join"
      [] step = "join" -> "video"
      [] step = "video" -> "control"
      [] step = "control" -> "process"
      [] step = "process" -> "remove"
      [] step = "remove" -> "resolution"
      [] step = "resolution" -> "last_frame"
      [] step = "last_frame" -> "none"

\* lines 403-433: the statement of stop() that follows each statement
After(step) ==
    CASE step = "flag" -> "join"
      [] step = "join" -> "control"
      [] step = "control" -> "video"
      [] step = "video" -> "process"
      [] step = "process" -> "remove"
      [] step = "remove" -> "resolution"
      [] step = "resolution" -> "last_frame"
      [] step = "last_frame" -> "none"

\* line 403
StopFlag(c) ==
    /\ tpc[c] = "flag"
    /\ is_running' = FALSE
    /\ tpc' = [tpc EXCEPT ![c] = After("flag")]
    /\ UNCHANGED <<last_frame, resolution, server_process, video_socket, control_socket,
                   stream_thread, local_port, video_codec, listeners,
                   envv, spc, threaded, lpc, data_buffer, frames, pub, hist>>

\* lines 405-406: join() returns once the thread has ended; joining the current
\* thread raises RuntimeError, which leaves stop() and is caught by the publish
\* that called the listener
MustJoin == stream_thread # 0 /\ IsAlive(stream_thread)

StopJoin(c) ==
    /\ tpc[c] = "join"
    /\ \/ /\ ~MustJoin
          /\ tpc' = [tpc EXCEPT ![c] = After("join")]
          /\ UNCHANGED <<pub, hist>>
       \/ /\ MustJoin /\ stream_thread = c
          /\ tpc' = [tpc EXCEPT ![c] = "none"]
          /\ pub' = [pub EXCEPT ![c].st = "iter"]
          /\ hist' = [hist EXCEPT !.stopRes[c] = "raised"]
    /\ UNCHANGED <<client, envv, spc, threaded, lpc, data_buffer, frames>>

\* one more step of a stop() in the log of that call
Logged(c, step, h) == [h EXCEPT !.stopLog[c] = Append(@, step)]
Released(n, res, h) ==
    [h EXCEPT !.released[n] = @ \cup {res},
              !.again = IF res \in h.released[n] THEN @ \cup {res} ELSE @]
AnyLoop == \E c \in Ctx : LoopActive(c)

\* lines 408-409
StopControl(c) ==
    /\ tpc[c] = "control"
    /\ tpc' = [tpc EXCEPT ![c] = After("control")]
    /\ hist' = IF control_socket # 0
               THEN [Logged(c, "control", Released(control_socket, "control", hist))
                       EXCEPT !.closedInLoop = @ \/ AnyLoop]
               ELSE hist
    /\ UNCHANGED <<client, envv, spc, threaded, lpc, data_buffer, frames, pub>>

\* lines 410-411
StopVideo(c) ==
    /\ tpc[c] = "video"
    /\ tpc' = [tpc EXCEPT ![c] = After("video")]
    /\ closed' = IF video_socket # 0 THEN [closed EXCEPT ![video_socket] = TRUE] ELSE closed
    /\ wire' = IF video_socket # 0 THEN [wire EXCEPT ![video_socket] = <<>>] ELSE wire
    /\ hist' = IF video_socket # 0
               THEN [Logged(c, "video", Released(video_socket, "video", hist))
                       EXCEPT !.closedInLoop = @ \/ AnyLoop]
               ELSE hist
    /\ UNCHANGED <<client, spc, threaded, lpc, data_buffer, frames, pub>>

\* lines 413-416: terminate(), then wait()
StopProcess(c) ==
    /\ tpc[c] = "process"
    /\ tpc' = [tpc EXCEPT ![c] = After("process")]
    /\ hist' = IF server_process # 0
               THEN Logged(c, "wait", Released(server_process, "wait",
                      Logged(c, "terminate", Released(server_process, "terminate", hist))))
               ELSE hist
    /\ UNCHANGED <<client, envv, spc, threaded, lpc, data_buffer, frames, pub>>

\* lines 418-429: the forward is removed, or the removal fails and is logged
StopRemove(c) ==
    /\ tpc[c] = "remove"
    /\ tpc' = [tpc EXCEPT ![c] = After("remove")]
    /\ \/ /\ local_port = 0
          /\ hist' = hist
       \/ /\ local_port # 0
          /\ hist' = Logged(c, "remove", Released(local_port, "remove", hist))
       \/ /\ local_port # 0
          /\ hist' = Logged(c, "remove_failed", hist)
    /\ UNCHANGED <<client, envv, spc, threaded, lpc, data_buffer, frames, pub>>

\* line 431
StopClear(c) ==
    /\ tpc[c] = "resolution"
    /\ resolution' = None
    /\ tpc' = [tpc EXCEPT ![c] = After("resolution")]
    /\ hist' = Logged(c, "resolution", hist)
    /\ UNCHANGED <<is_running, last_frame, server_process, video_socket, control_socket,
                   stream_thread, local_port, video_codec, listeners,
                   envv, spc, threaded, lpc, data_buffer, frames, pub>>

\* lines 432-433: the last statement, and the return to whoever called stop()
StopReturn(c) ==
    /\ tpc[c] = "last_frame"
    /\ last_frame' = None
    /\ tpc' = [tpc EXCEPT ![c] = After("last_frame")]
    /\ LET h == [Logged(c, "last_frame", hist) EXCEPT !.stopRes[c] = "returned",
                                                    !.ended = @ \/ hist.nStarts > 0] IN
       \/ /\ pub[c].st = "cb"               \* back in the listener, which returns
          /\ pub' = [pub EXCEPT ![c].st = "iter"]
          /\ hist' = h
          /\ UNCHANGED spc
       \/ /\ pub[c].st # "cb" /\ c = Main /\ spc = "failstop"   \* line 391
          /\ spc' = "idle"
          /\ hist' = [h EXCEPT !.startRes = "failed"]
          /\ UNCHANGED pub
       \/ /\ pub[c].st # "cb" /\ ~(c = Main /\ spc = "failstop")  \* back in the caller
          /\ hist' = h
          /\ UNCHANGED <<spc, pub>>
    /\ UNCHANGED <<is_running, resolution, server_process, video_socket, control_socket,
                   stream_thread, local_port, video_codec, listeners,
                   envv, threaded, lpc, data_buffer, frames>>

(* --------------------------- specifications ---------------------------- *)
Handshake(codecs, dims) ==
    \/ StartPush
    \/ StartReverse
    \/ StartLaunch
    \/ StartAcceptControl
    \/ StartRecvName
    \/ \E cd \in codecs : StartRecvCodec(cd)
    \/ \E d \in dims : StartRecvSize(d[1], d[2])
    \/ StartSetRunning
    \/ StartSpawn

Running(arrived, counts) ==
    \E c \in Ctx :
        \/ LoopWhile(c)
        \/ LoopRecv(c, arrived)
        \/ LoopInnerBreak(c)
        \/ LoopExtract(c, counts)
        \/ LoopFrame(c)
        \/ LoopExit(c)
        \/ PublishCall(c)
        \/ PublishReturn(c)

Stopping ==
    \E c \in Ctx :
        \/ StopFlag(c)
        \/ StopJoin(c)
        \/ StopControl(c)
        \/ StopVideo(c)
        \/ StopProcess(c)
        \/ StopRemove(c)
        \/ StopClear(c)
        \/ StopReturn(c)

(* The life cycle: the caller registers listeners, then calls start() and   *)
(* stop() in any order, in either mode; a listener may call stop().         *)
LifeStreams == {PayloadsOf(ls) : ls \in {<<1>>}}
LifeArrivals == {RecvMax}
LifeCodecs == {"H264", "h265"}
LifeDims == {<<U32BE(0), U32BE(0)>>, <<U32BE(1080), U32BE(2400)>>}
LifeCallbacks == {"stop"}
LifeCounts == {1, 2}

Next ==
    \/ \E th \in BOOLEAN : CallStart(th)
    \/ CallStop
    \/ \E l \in LifeCallbacks : hist.nStarts = 0 /\ AddListener(FRAME, l)
    \/ \E ps \in LifeStreams : StartAcceptVideo(ps)
    \/ Handshake(LifeCodecs, LifeDims)
    \/ Running(LifeArrivals, LifeCounts)
    \/ Stopping

Spec == Init /\ [][Next]_vars

(* One session, left undisturbed: the caller registers listeners and calls  *)
(* start() once, in its default mode; the peer sends any stream, fragmented *)
(* in any way.                                                              *)
StreamCallbacks == {"ok", "raise"}
StreamCodecs == {"h264"}
StreamDims == {<<U32BE(1080), U32BE(2400)>>}
StreamArrivals == 1..(MaxPackets * (HeaderLen + MaxLen))
StreamCounts == {0, 1}

NextStream ==
    \/ hist.nStarts = 0 /\ CallStart(TRUE)
    \/ \E l \in StreamCallbacks : hist.nStarts = 0 /\ AddListener(FRAME, l)
    \/ \E ls \in LenSeqs : StartAcceptVideo(PayloadsOf(ls))
    \/ Handshake(StreamCodecs, StreamDims)
    \/ Running(StreamArrivals, StreamCounts)
    \/ Stopping

SpecStream == Init /\ [][NextStream]_vars

(* The dispatcher: one session on a worker thread, while the caller adds    *)
(* and removes listeners and a listener may remove itself.                  *)
PubCallbacks == {"ok", "ok2", "unsub"}
PubCounts == {1}

NextPub ==
    \/ hist.nStarts = 0 /\ CallStart(TRUE)
    \/ \E l \in PubCallbacks : AddListener(FRAME, l)
    \/ \E ev \in ListenEvent : \E l \in Callbacks : RemoveListener(ev, l)
    \/ \E ps \in LifeStreams : StartAcceptVideo(ps)
    \/ Handshake(StreamCodecs, StreamDims)
    \/ Running(LifeArrivals, PubCounts)
    \/ Stopping

SpecPub == Init /\ [][NextPub]_vars

(* Cancellation: the life cycle with one stream per session, in which every  *)
(* context that can take a step of its loop, of a publish or of stop()      *)
(* eventually takes one: threads are scheduled, a read returns within its   *)
(* 0.1 s timeout, and a listener returns.                                   *)
LiveArrivals == {RecvMax}
LiveCounts == {1}

LiveLoop(c) ==
    \/ LoopWhile(c)
    \/ LoopRecv(c, LiveArrivals)
    \/ LoopInnerBreak(c)
    \/ LoopExtract(c, LiveCounts)
    \/ LoopFrame(c)
    \/ LoopExit(c)
    \/ PublishCall(c)
    \/ PublishReturn(c)

LiveStop(c) ==
    \/ StopFlag(c)
    \/ StopJoin(c)
    \/ StopControl(c)
    \/ StopVideo(c)
    \/ StopProcess(c)
    \/ StopRemove(c)
    \/ StopClear(c)
    \/ StopReturn(c)

NextLive ==
    \/ \E th \in BOOLEAN : CallStart(th)
    \/ CallStop
    \/ \E l \in LifeCallbacks : hist.nStarts = 0 /\ AddListener(FRAME, l)
    \/ \E ps \in LifeStreams : StartAcceptVideo(ps)
    \/ Handshake(StreamCodecs, StreamDims)
    \/ Running(LiveArrivals, LiveCounts)
    \/ Stopping

SpecLive ==
    /\ Init /\ [][NextLive]_vars
    /\ \A c \in Ctx : WF_vars(LiveLoop(c)) /\ WF_vars(LiveStop(c))

(* ------------------------------ properties ----------------------------- *)
\* context c runs, or has run, the stream loop of the last start()
Ran(c) == LoopActive(c) \/ lpc[c] = "done" \/ (c = Main /\ hist.startRes = "inline")

\* the loop of context c is between two packets: at its while, in its read, or past its end
AtRest(c) == Ran(c) /\ lpc[c] \in {"while", "recv", "exit", "done", "none"}

\* every byte the peer wrote on the current video channel has been received
AllReceived == video_socket # 0 /\ ~closed[video_socket] /\ wire[video_socket] = <<>>

\* the payloads the peer wrote on the current video channel
SentNow == IF video_socket = 0 THEN <<>> ELSE hist.sent[video_socket]

\* C1: the payloads handed to the decoder are always the first payloads the peer
\* wrote, byte for byte; and when the peer wrote one packet of any length L and
\* all its 12+L bytes have been received, in whatever fragments, exactly that
\* one payload has been handed to the decoder.
C1_OnePacketOnePayload ==
    \A c \in Ctx : Ran(c) =>
        /\ Prefix(hist.fed[c], SentNow)
        /\ (Len(SentNow) = 1 /\ AtRest(c) /\ AllReceived) => hist.fed[c] = SentNow

\* a packet of MaxLen bytes that arrived cut inside its header and inside its
\* payload has been handed to the decoder
C1_Witness ==
    \E c \in Ctx : /\ Ran(c) /\ AtRest(c) /\ AllReceived
                   /\ Len(SentNow) = 1 /\ Len(SentNow[1]) = MaxLen
                   /\ hist.fed[c] = SentNow
                   /\ hist.cut[c] = {"header", "payload"}

\* every payload handed to the decoder by context c came back as exactly one frame
OneEach(c) == hist.decoded[c] = [i \in 1..Len(hist.fed[c]) |-> <<hist.fed[c][i], 1>>]

\* the frames of the packets the peer wrote, one per packet, in arrival order
FramesInOrder == [i \in 1..Len(SentNow) |-> <<SentNow[i], 1>>]

\* C4: when each packet decodes to one frame, every frame subscriber has
\* received the frames of the first packets that arrived, in arrival order, and
\* once all packets have been received it has received the frames of all of them.
C4_FramesInArrivalOrder ==
    \A c \in Ctx : (Ran(c) /\ OneEach(c)) =>
        \A l \in Range(listeners[FRAME]) :
            /\ Prefix(hist.seen[l], FramesInOrder)
            /\ (AtRest(c) /\ AllReceived /\ hist.why[c] \in {"none", "eof", "error"})
                  => hist.seen[l] = FramesInOrder

\* two subscribers have received the frames of three packets
C4_Witness ==
    \E c \in Ctx : /\ Ran(c) /\ OneEach(c) /\ Len(SentNow) = 3
                   /\ Len(listeners[FRAME]) = 2
                   /\ \A l \in Range(listeners[FRAME]) : hist.seen[l] = FramesInOrder

\* C7: a subscriber that raises is caught: when a publish returns, every
\* registered subscriber has been called, in registration order; between two
\* deliveries every frame subscriber has received every frame decoded so far
\* but those still waiting for their delivery;
\* and no loop ever ends because of a subscriber (is_running stays true until
\* the loop leaves its while for another reason).
C7_RaisingSubscriberIsolated ==
    \A c \in Ctx :
        /\ pub[c].st = "done" => pub[c].called = listeners[pub[c].ev]
        /\ (Ran(c) /\ lpc[c] # "deliver") =>
              \A l \in Range(listeners[FRAME]) : hist.seen[l] \o frames[c] = hist.decoded[c]
        /\ hist.why[c] # "listener"
        /\ (LoopActive(c) /\ lpc[c] # "exit") => is_running

\* a subscriber registered after a raising one has received the frames of two
\* packets, and the loop is still running
C7_Witness ==
    \E c \in Ctx : /\ LoopActive(c) /\ lpc[c] = "recv" /\ is_running
                   /\ listeners[FRAME] = <<"raise", "ok">>
                   /\ Len(hist.fed[c]) = 2
                   /\ Len(hist.seen["ok"]) >= 2
                   /\ hist.seen["raise"] = hist.seen["ok"]

\* C2: INIT is published at most once in the life of a client, never more
\* often than handshakes have succeeded, and no FRAME is published before it.
C2_InitAtMostOnce ==
    /\ hist.initCount <= 1
    /\ hist.initCount <= hist.hsOk
    /\ ~hist.early

\* C3: no call of stop() releases a resource that an earlier call released:
\* no socket is closed twice, no process terminated or waited on twice, no
\* forward removed twice; and stop() called by the caller never raises.
C3_StopTwiceReleasesOnce ==
    /\ hist.again = {}
    /\ hist.stopRes[Main] # "raised"

\* the handshake of the current start() reported an unsupported codec or 0x0
BadHandshake ==
    \/ hist.gotCodec # "none" /\ Lower(hist.gotCodec) # "h264"
    \/ hist.gotRes = <<0, 0>>

\* C5: once the handshake has reported a codec other than h264 (compared
\* case-insensitively) or a 0x0 resolution, start() goes through stop() and
\* returns to the caller without raising, is_running is false, and no INIT has
\* been published by this call.
C5_UnsupportedHandshake ==
    BadHandshake =>
        /\ spc \in {"failstop", "idle"}
        /\ spc = "idle" => hist.startRes = "failed"
        /\ hist.startErr = "none"
        /\ hist.stopRes[Main] # "raised"
        /\ ~is_running
        /\ hist.initCount = hist.startInit

\* start() has returned after the peer sent the codec identifier h265
C5_Witness ==
    /\ spc = "idle" /\ hist.startRes = "failed"
    /\ hist.gotCodec = "h265"
    /\ ~is_running

\* every handle the client holds has been released
FullTeardown ==
    /\ video_socket # 0 => "video" \in hist.released[video_socket] /\ closed[video_socket]
    /\ control_socket # 0 => "control" \in hist.released[control_socket]
    /\ server_process # 0 => {"terminate", "wait"} \subseteq hist.released[server_process]
    /\ local_port # 0 => Range(hist.stopLog[Main]) \cap {"remove", "remove_failed"} # {}

\* C6: whatever makes the handshake fail (accept timeout, peer close or socket
\* error in the metadata read, unsupported codec, 0x0 resolution), start()
\* enters stop() and, when it returns, the sockets it accepted are closed, the
\* process it launched is terminated and waited on and the removal of the
\* forward has been issued; is_running is false at every point of the call.
C6_FailedHandshakeTearsDown ==
    /\ spc \in {"push", "reverse", "launch", "accept_video", "accept_control",
                "name", "codec", "size", "init", "failstop"} => ~is_running
    /\ hist.startFail # "none" =>
          /\ spc \in {"failstop", "idle"}
          /\ hist.startErr = "none"
          /\ server_process = hist.nStarts /\ local_port = hist.nStarts
          /\ hist.startFail \in {"socket", "codec", "zero"} =>
                video_socket = hist.nStarts /\ control_socket = hist.nStarts
          /\ (spc = "idle" /\ tpc[Main] = "none") => hist.startRes = "failed" /\ FullTeardown
    /\ hist.startRes = "failed" => hist.startFail # "none"

\* start() has returned after the peer closed the video channel during the
\* metadata read: both sockets of this call are closed
C6_Witness ==
    /\ spc = "idle" /\ hist.startRes = "failed" /\ hist.startFail = "socket"
    /\ video_socket = hist.nStarts /\ closed[video_socket]
    /\ "control" \in hist.released[control_socket]
    /\ hist.stopLog[Main] = <<"control", "video", "terminate", "wait", "remove",
                              "resolution", "last_frame">>

\* C8: when a publish returns, every listener that stayed registered from its
\* first to its last step has been called exactly once.
C8_PublishReachesEveryone ==
    \A c \in Ctx : pub[c].st = "done" =>
        \A l \in pub[c].stay :
            Cardinality({i \in 1..Len(pub[c].called) : pub[c].called[i] = l}) = 1

\* the place of a release step in the order of stop()
Rank(step) ==
    CASE step = "control" -> 1
      [] step = "video" -> 2
      [] step = "terminate" -> 3
      [] step = "wait" -> 4
      [] step \in {"remove", "remove_failed"} -> 5
      [] step = "resolution" -> 6
      [] step = "last_frame" -> 7

InOrder(log) == \A i, j \in 1..Len(log) : i < j => Rank(log[i]) < Rank(log[j])

\* C9: every call of stop() releases in the order control socket, video socket,
\* terminate, wait, forward removal, and releases every handle the client
\* holds; a failed removal is not raised, and the call still clears resolution
\* and last_frame and returns.
C9_StopOrder ==
    \A c \in Ctx :
        LET log == hist.stopLog[c] IN
        /\ InOrder(log)
        /\ "remove_failed" \in Range(log) => hist.stopRes[c] \in {"running", "returned"}
        /\ (tpc[c] = "none" /\ hist.stopRes[c] # "none" /\ hist.stopRes[c] # "raised") =>
              /\ hist.stopRes[c] = "returned"
              /\ Len(log) >= 2
              /\ SubSeq(log, Len(log) - 1, Len(log)) = <<"resolution", "last_frame">>
              /\ control_socket # 0 => "control" \in Range(log)
              /\ video_socket # 0 => "video" \in Range(log)
              /\ server_process # 0 => {"terminate", "wait"} \subseteq Range(log)
              /\ local_port # 0 => Range(log) \cap {"remove", "remove_failed"} # {}

\* a stop() whose forward removal failed has released everything else in
\* order, cleared both fields and returned
C9_Witness ==
    \E c \in Ctx :
        /\ tpc[c] = "none" /\ hist.stopRes[c] = "returned"
        /\ hist.stopLog[c] = <<"control", "video", "terminate", "wait", "remove_failed",
                               "resolution", "last_frame">>
        /\ resolution = None /\ last_frame = None

\* C10: no socket is closed while a stream loop is executing.
C10_NoCloseDuringLoop == ~hist.closedInLoop
\* start() is between its is_running check and the start of the stream loop
Connecting == spc \in {"push", "reverse", "launch", "accept_video", "accept_control",
                       "name", "codec", "size", "init", "set_running", "spawn"}

\* C11: once the client has been stopped (a stop() that followed a start() has
\* returned, or a stream loop has ended), it is never connecting again and
\* is_running is never true again.
C11_NoResumeFromStopped == hist.ended => (~is_running /\ ~Connecting)

\* C12: the only error start() ever raises to its caller is the failed push of
\* the server artifact; every other failure is absorbed.
C12_OnlyPushPropagates == hist.startErr \in {"none", "push"}

\* C13: whenever a stream loop is about to read more bytes, its accumulator
\* holds no complete packet: fewer than 12 bytes, or fewer than 12 plus the
\* declared length of the packet at its front.
C13_AccumulatorInvariant ==
    \A c \in Ctx : lpc[c] = "recv" => ~HasPacket(data_buffer[c])

\* C14: a malformed payload skips only its own packet: when the peer has closed
\* the channel after everything it wrote was received, every packet has been
\* handed to the decoder, in arrival order.
C14_MalformedSkipsOnlyItself ==
    \A c \in Ctx : (Ran(c) /\ AllReceived /\ hist.why[c] = "eof") => hist.fed[c] = SentNow

\* the stream loop of context c has returned after the peer closed the channel
EndedByPeer(c) == lpc[c] \in {"done", "none"} /\ Ran(c) /\ hist.why[c] = "eof"

\* the last frame decoded from the packets the peer wrote, None without packets
LastOf(fs) == IF fs = <<>> THEN None ELSE fs[Len(fs)]

\* C15: when the loop has ended because the peer closed the channel after N
\* packets that each decoded to a frame, and stop() was not called, is_running
\* is false, every subscriber has received exactly the frames of the N packets
\* in order, last_frame is the last of them and resolution is the negotiated one.
C15_PeerCloseEndsCleanly ==
    \A c \in Ctx :
        (EndedByPeer(c) /\ OneEach(c) /\ hist.stopRes[Main] = "none" /\ tpc[c] = "none") =>
            /\ ~is_running
            /\ hist.fed[c] = SentNow
            /\ \A l \in Range(listeners[FRAME]) : hist.seen[l] = FramesInOrder
            /\ last_frame = LastOf(FramesInOrder)
            /\ resolution = hist.gotRes /\ resolution # None

\* the loop has ended on the peer's close after three packets, and a subscriber
\* has their three frames
C15_Witness ==
    \E c \in Ctx : /\ EndedByPeer(c) /\ OneEach(c) /\ Len(SentNow) = 3
                   /\ listeners[FRAME] = <<"ok">>
                   /\ hist.seen["ok"] = FramesInOrder
                   /\ last_frame = <<SentNow[3], 1>>
                   /\ resolution = <<1080, 2400>>

\* the step in which the stream loop of context c returns
LoopReturns(c) == lpc[c] = "exit" /\ lpc'[c] # "exit"

ReleasedAll(c) ==
    LET log == Range(hist.stopLog[c]) IN
    /\ control_socket # 0 => "control" \in log
    /\ video_socket # 0 => "video" \in log /\ closed[video_socket]
    /\ server_process # 0 => {"terminate", "wait"} \subseteq log
    /\ local_port # 0 => log \cap {"remove", "remove_failed"} # {}

\* the caller, not running a loop itself, is inside stop() and has cleared the flag
CallerCancelled == tpc[Main] = "join" /\ ~LoopActive(Main)

\* the stop() of the caller has returned, the thread it had to wait for has ended
CallerStopped ==
    /\ tpc[Main] = "none" /\ hist.stopRes[Main] = "returned"
    /\ ~MustJoin
    /\ ReleasedAll(Main)

\* C17: when the caller's stop() has cleared is_running while a stream loop
\* runs on another context, then, reads timing out and listeners returning,
\* the loop exits, the join completes and stop() returns with every handle
\* released.
C17_CancellationIsLive == CallerCancelled ~> CallerStopped

\* the caller's stop() has returned after waiting for a worker whose loop
\* ended at its flag check
C17_Witness ==
    /\ CallerStopped
    /\ stream_thread # 0 /\ lpc[stream_thread] = "done"
    /\ hist.why[stream_thread] = "flag"

\* the contexts that are inside _stream_loop()
ActiveLoops == {c \in Ctx : LoopActive(c)}

\* C18: at most one context is inside the stream loop at any time.
C18_AtMostOneLoop == Cardinality(ActiveLoops) <= 1

\* a stop() called since the last start() has returned, and nothing runs: no
\* stream loop, no handshake, no other stop()
StoppedAndQuiet ==
    /\ \E c \in Ctx : hist.stopRes[c] = "returned"
    /\ \A c \in Ctx : tpc[c] = "none"
    /\ ActiveLoops = {}
    /\ ~Connecting

\* C19: once a stop() has completed and the stream loop has exited, resolution
\* and last_frame are both unset.
C19_StopClearsCache == StoppedAndQuiet => (resolution = None /\ last_frame = None)

\* C20: a stop() called on the context of a stream loop, from a listener,
\* completes: once that loop has exited the call has returned without raising
\* and has released every handle the client holds, in both modes.
C20_StopFromListenerCompletes ==
    \A c \in Ctx :
        (hist.stopRes[c] # "none" /\ tpc[c] = "none" /\ ~LoopActive(c)) =>
            /\ hist.stopRes[c] = "returned"
            /\ ReleasedAll(c)

\* a stop() called since the last start() has returned
SomeStopReturned == \E c \in Ctx : hist.stopRes[c] = "returned"

\* no step delivers a frame to a subscriber
NoDelivery == \A l \in Callbacks : Len(hist.seen[l]') <= Len(hist.seen[l])

\* C21: once a call of stop() has returned, no step delivers a frame to any
\* subscriber, whichever context called stop() and in whichever mode.
C21_NoFrameAfterStop == [][SomeStopReturned => NoDelivery]_vars
====
